---- MODULE Spec2Model ----
(***************************************************************************)
(* A model of the BitTorrent client: the peer connection of peer.rs (the   *)
(* handshake, the framed messages and the pipelined download of a piece),  *)
(* the commands of main.rs that drive it, the bencode decoder of           *)
(* bencode.rs, the tracker request and response of tracker.rs, and the     *)
(* torrent file of torrent.rs.                                             *)
(*                                                                         *)
(* The peer is the environment: every frame the program reads is chosen    *)
(* by the peer from a finite set of frames.  A block payload is a run of   *)
(* equal bytes (its length and its byte value, "fill"), and the piece      *)
(* buffer is recorded at the offsets where a write of such a payload can   *)
(* start or end: the bytes between two such offsets always share a value.  *)
(***************************************************************************)
EXTENDS Integers, Sequences, FiniteSets, TLC

VARIABLES
    torrent,        \* PeerConnection.torrent: the metainfo view
    cmd,            \* the command main runs
    pc,             \* where the program is
    result,         \* "running", "ok", "panic", or the error that ended the command
    state,          \* PeerConnection.state
    peer_id,        \* PeerConnection.peer_id
    dl_i,           \* download: the loop variable i
    piece_index,    \* download_piece: its argument
    block_states,   \* download_piece: block_states
    piece,          \* download_piece: the piece buffer
    received,       \* per block, the fill of the last payload copied for it (-1: none)
    sent,           \* the messages written to the stream, in order
    progress,       \* how far the peer session has got through ProtocolOrder
    files,          \* the piece files written by download_piece
    output,         \* the output file of download
    bc_input,       \* the bytes handed to the decoder
    bc_pairs,       \* the pairs bc_input was built from, when it is a dictionary document
    bc_trunc,       \* bc_input is a complete document cut short
    bc_phase,       \* "input", "decoded", "encoded", "redecoded"
    bc_result,      \* what from_bytes returned for bc_input
    bc_encoded,     \* the bytes to_bytes made of the decoded value
    bc_again,       \* what from_bytes returned for bc_encoded
    overflow_checks, \* the build: arithmetic overflow panics (debug) or wraps (release)
    lay_torrent,    \* the length and piece_length whose pieces are laid out
    lay_piece,      \* the piece being laid out
    lay_lengths,    \* the piece lengths computed so far, piece 0 first
    lay_requests,   \* the requests built for the blocks of piece lay_piece, in order
    tr_input,       \* the peers byte string of a tracker response
    tr_result,      \* what parse_peers returned for tr_input
    url_digest,     \* get_peers: the 20 bytes of the SHA-1 digest of the info dictionary
    url_info_hash,  \* get_peers: info_hash, the text torrent.info_hash() returned
    url_i,          \* get_peers: the loop variable i
    url_encoded,    \* get_peers: url_encoded_info_hash
    url_phase,      \* get_peers: "start", "loop", "formatted", or "panic"
    mi_input,       \* the bytes of the torrent file
    mi_result       \* what Torrent::from_bytes returned for mi_input

peer_vars == <<torrent, cmd, pc, result, state, peer_id, dl_i, piece_index,
               block_states, piece, received, sent, progress, files, output>>

bencode_vars == <<bc_input, bc_pairs, bc_trunc, bc_phase, bc_result, bc_encoded,
                  bc_again, overflow_checks>>

layout_vars == <<lay_torrent, lay_piece, lay_lengths, lay_requests>>

\* What the peer session leaves alone
tracker_vars == <<tr_input, tr_result>>

announce_vars == <<url_digest, url_info_hash, url_i, url_encoded, url_phase>>

metainfo_vars == <<mi_input, mi_result>>

pure_vars == <<bencode_vars, layout_vars, tracker_vars, announce_vars, metainfo_vars>>

vars == <<peer_vars, bencode_vars, layout_vars, tracker_vars, announce_vars,
          metainfo_vars>>

----------------------------------------------------------------------------
(* Constants of the program and bounds of the model *)

BLOCK_LEN == 16384
MAX_CONCURRENT_REQUESTS == 5

\* The number of blocks of the one piece of the large torrent.
MaxBlocks == 7

None == "None"

----------------------------------------------------------------------------
(* Pure helpers *)

div_round_up(a, b) == (a + (b - 1)) \div b

Min(a, b) == IF a < b THEN a ELSE b

\* TorrentInfo::piece_count, which peer.rs calls: ceil(length / piece_length).
piece_count(t) == div_round_up(t.length, t.piece_length)

\* The offsets at which the piece buffer of a piece of pl bytes is recorded:
\* the block boundaries, and the ends of a write that starts one byte late.
Offsets(pl) ==
    { x \in { k * BLOCK_LEN : k \in 0..div_round_up(pl, BLOCK_LEN) }
            \cup {1, 1 + BLOCK_LEN} : x < pl }

\* A buffer that is not cleared
ZeroPiece_Stale(pl) == [o \in Offsets(pl) |-> 1]

\* vec![0; piece_length]
ZeroPiece(pl) == [o \in Offsets(pl) |-> 0]

\* piece[begin..begin + len].copy_from_slice(&block), block all bytes `fill`.
CopyFromSlice(buf, begin, len, fill) ==
    [o \in DOMAIN buf |-> IF begin <= o /\ o < begin + len THEN fill ELSE buf[o]]

\* SHA-1 as an injective function of the bytes hashed.
Sha1(buf) == <<"sha1", buf>>

\* The last piece taken as the remainder alone
PieceLength_Remainder(t, i) ==
    IF i = piece_count(t) - 1 THEN t.length % t.piece_length ELSE t.piece_length

\* download_piece, lines 384-392: the length of piece i.
PieceLength(t, i) ==
    IF i = piece_count(t) - 1
    THEN IF t.length % t.piece_length = 0
         THEN t.piece_length
         ELSE t.length % t.piece_length
    ELSE t.piece_length

BlockCount(t, i) == div_round_up(PieceLength(t, i), BLOCK_LEN)

LastBlockLen(t, i) ==
    IF PieceLength(t, i) % BLOCK_LEN = 0
    THEN BLOCK_LEN
    ELSE PieceLength(t, i) % BLOCK_LEN

\* Every block taken as a full block
BlockLen_Full(t, i, k) == BLOCK_LEN

\* The length of block k of piece i, as requested and as expected on receipt.
BlockLen(t, i, k) ==
    IF k = BlockCount(t, i) - 1 THEN LastBlockLen(t, i) ELSE BLOCK_LEN

\* TorrentInfo::piece_hashes: slot i is the expected digest of piece i.
piece_hashes(t) == t.pieces

\* The torrents of the model.  Each was made from a file whose bytes are all 1,
\* so slot i of `pieces` is the SHA-1 of piece i of that file.
SeedPieces(len, plen) ==
    LET t0 == [length |-> len, piece_length |-> plen]
    IN  [i \in 0..(piece_count(t0) - 1) |->
            Sha1([o \in Offsets(PieceLength(t0, i)) |-> 1])]

MakeTorrent(len, plen) ==
    [length |-> len, piece_length |-> plen, pieces |-> SeedPieces(len, plen)]

Torrents ==
    { MakeTorrent(2 * BLOCK_LEN + 1, 2 * BLOCK_LEN),
      MakeTorrent((MaxBlocks - 1) * BLOCK_LEN + 1, MaxBlocks * BLOCK_LEN) }

Commands == {"handshake", "download_piece", "download"}

\* The runs of the model: every command on the torrent of two pieces, and
\* download_piece on the torrent of one large piece.
Runs ==
    { <<t, c>> \in Torrents \X Commands :
        piece_count(t) > 1 \/ c = "download_piece" }

\* The byte values a block payload is filled with: the file's byte, and another.
Fills == {0, 1}

----------------------------------------------------------------------------
(* Messages *)

Msg(tag, index, begin, length) ==
    [tag |-> tag, index |-> index, begin |-> begin, length |-> length]

HandshakeMsg == Msg("handshake", 0, 0, 0)
InterestedMsg == Msg("interested", 0, 0, 0)
RequestMsg(t, i, k) == Msg("request", i, k * BLOCK_LEN, BlockLen(t, i, k))

\* A frame as the peer puts it on the wire: the length prefix `len`, then the
\* tag byte and a payload of len - 1 bytes.  A piece frame carries index,
\* begin and a block of len - 9 bytes, all of value fill.  eof: the stream
\* ends instead.
Frame(eof, len, tag, index, begin, fill) ==
    [eof |-> eof, len |-> len, tag |-> tag, index |-> index, begin |-> begin,
     fill |-> fill]

\* The piece frames the peer may send while piece i is being downloaded: for
\* every begin (the block boundaries, one past the last block, and one byte
\* late) a block of the length download_piece expects there with every fill,
\* a block one byte short, and a block of another piece.
PieceFrames(t, i) ==
    LET begins == { k * BLOCK_LEN : k \in 0..BlockCount(t, i) } \cup {1}
        expected(b) == BlockLen(t, i, b \div BLOCK_LEN)
    IN  { Frame(FALSE, 9 + expected(b), 7, i, b, f) : b \in begins, f \in Fills }
        \cup { Frame(FALSE, 9 + expected(b) - 1, 7, i, b, 0) : b \in begins }
        \cup { Frame(FALSE, 9 + BLOCK_LEN, 7, i + 1, 0, 0) }

OtherFrames ==
    { Frame(TRUE, 0, 0, 0, 0, 0), Frame(FALSE, 0, 0, 0, 0, 0) }
    \cup { Frame(FALSE, 1, tg, 0, 0, 0) : tg \in {0, 1, 2, 3, 9} }
    \cup { Frame(FALSE, l, 4, 0, 0, 0) : l \in {4, 5} }
    \cup { Frame(FALSE, l, 5, 0, 0, 0) : l \in {1, 2} }
    \cup { Frame(FALSE, l, tg, 0, 0, 0) : l \in {12, 13}, tg \in {6, 8} }
    \cup { Frame(FALSE, 8, 7, 0, 0, 0) }

Frames(t, i) == OtherFrames \cup PieceFrames(t, i)

TagName(tg) ==
    CASE tg = 0 -> "choke"
      [] tg = 1 -> "unchoke"
      [] tg = 2 -> "interested"
      [] tg = 3 -> "not_interested"
      [] tg = 4 -> "have"
      [] tg = 5 -> "bitfield"
      [] tg = 6 -> "request"
      [] tg = 7 -> "piece"
      [] tg = 8 -> "cancel"
      [] OTHER  -> "invalid"

\* An unknown tag read as a choke
PeerMessageDecode_UnknownAsChoke(f) ==
    IF f.len = 0 THEN [kind |-> "panic", tag |-> "", f |-> f]
    ELSE [kind |-> "msg", tag |-> IF f.tag > 8 THEN "choke" ELSE TagName(f.tag),
          f |-> f]

\* PeerMessage::decode on the len bytes of a frame's body.  input[0] and the
\* payload indexing panic when the body is too short.
PeerMessageDecode(f) ==
    LET payload_len == f.len - 1
        need == CASE f.tag = 4 -> 4
                  [] f.tag \in {6, 8} -> 12
                  [] f.tag = 7 -> 8
                  [] OTHER -> 0
    IN  IF f.len = 0 THEN [kind |-> "panic", tag |-> "", f |-> f]
        ELSE IF f.tag > 8 THEN [kind |-> "invalid peer message tag", tag |-> "", f |-> f]
        ELSE IF payload_len < need THEN [kind |-> "panic", tag |-> "", f |-> f]
        ELSE [kind |-> "msg", tag |-> TagName(f.tag), f |-> f]

\* PeerConnection::receive_message
receive_message(f) ==
    IF f.eof THEN [kind |-> "connected reset by peer", tag |-> "", f |-> f]
    ELSE PeerMessageDecode(f)

----------------------------------------------------------------------------
(* The protocol milestones, in the order the session must pass them.      *)
(* `progress` counts those passed so far, in this order; it follows what   *)
(* crosses the wire, not what the program makes of it.                     *)

ProtocolOrder ==
    << <<"in", "handshake">>, <<"in", "bitfield">>, <<"out", "interested">>,
       <<"in", "unchoke">> >>

Advance(p, dir, tag) ==
    IF p < Len(ProtocolOrder) /\ ProtocolOrder[p + 1] = <<dir, tag>> THEN p + 1 ELSE p

\* progress after receive_message returned r
AfterReceive(p, r) == IF r.kind = "msg" THEN Advance(p, "in", r.tag) ELSE p

----------------------------------------------------------------------------
(***************************************************************************)
(* The bencode codec (bencode.rs).  A byte is its value 0..255; the bytes  *)
(* the decoder tests for are named below.                                  *)
(***************************************************************************)
Ch_0 == 48
Ch_9 == 57
Ch_colon == 58
Ch_i == 105
Ch_e == 101
Ch_l == 108
Ch_d == 100
Ch_minus == 45
Ch_plus == 43

\* Bounds of the inputs handed to the decoder
MaxLen == 4
MaxPairs == 2
MaxGap == 22
MaxTail == 1

\* Result<(&[u8], BencodeValue)>, and the abort of the process by a panic
Ok(rest, value) == [kind |-> "ok", rest |-> rest, value |-> value]
Err(msg) == [kind |-> "err", msg |-> msg]
Panic(msg) == [kind |-> "panic", msg |-> msg]

\* The four shapes of BencodeValue.  An Integer(i64) is kept as its sign and
\* the decimal digits of its magnitude without leading zeros; a Dictionary
\* is the BTreeMap's entries in iteration order.
ByteString(bytes) == [type |-> "ByteString", bytes |-> bytes]
Integer(neg, digits) == [type |-> "Integer", neg |-> neg, digits |-> digits]
List(items) == [type |-> "List", items |-> items]
Dictionary(entries) == [type |-> "Dictionary", entries |-> entries]

IsDigit(b) == b >= Ch_0 /\ b <= Ch_9

\* input.iter().position(|b| *b == c): Some(index from 0) as the index, None as -1
Position(input, c) ==
  IF \E j \in 1..Len(input) : input[j] = c
  THEN (CHOOSE j \in 1..Len(input) :
          input[j] = c /\ \A m \in 1..(j - 1) : input[m] # c) - 1
  ELSE -1

\* &input[a..b], for a <= b <= input.len()
Slice(input, a, b) == SubSeq(input, a + 1, b)

\* The digits of a decimal text without its leading zeros
StripZeros(ds) ==
  LET nz == { j \in 1..Len(ds) : ds[j] # Ch_0 }
  IN IF nz = {} THEN << Ch_0 >>
     ELSE SubSeq(ds, CHOOSE j \in nz : \A m \in nz : j <= m, Len(ds))

\* a < b for two digit texts of equal length
DigitsLess(a, b) ==
  \E j \in 1..Len(a) : a[j] < b[j] /\ \A m \in 1..(j - 1) : a[m] = b[m]

\* A magnitude without leading zeros exceeds a limit given the same way
Exceeds(mag, limit) ==
  \/ Len(mag) > Len(limit)
  \/ Len(mag) = Len(limit) /\ DigitsLess(limit, mag)

AsBytes(ds) == [j \in 1..Len(ds) |-> ds[j] + Ch_0]

\* usize::MAX = 18446744073709551615, as its first 17 digits and its last 3
UsizeMaxHead == AsBytes(<< 1,8,4,4,6,7,4,4,0,7,3,7,0,9,5,5,1 >>)
UsizeMaxLow == 615
ThreeDigits(n) == AsBytes(<< n \div 100, (n \div 10) % 10, n % 10 >>)
UsizeMaxDigits == UsizeMaxHead \o ThreeDigits(UsizeMaxLow)
\* i64::MAX = 9223372036854775807 and the magnitude of i64::MIN
I64MaxDigits == AsBytes(<< 9,2,2,3,3,7,2,0,3,6,8,5,4,7,7,5,8,0,7 >>)
I64MinDigits == AsBytes(<< 9,2,2,3,3,7,2,0,3,6,8,5,4,7,7,5,8,0,8 >>)

\* str::parse::<usize> of a text that starts with a digit
ParseUsize(text) ==
  LET mag == StripZeros(text)
  IN IF \E j \in 1..Len(text) : ~IsDigit(text[j])
     THEN [ok |-> FALSE, msg |-> "invalid digit found in string"]
     ELSE IF Exceeds(mag, UsizeMaxDigits)
     THEN [ok |-> FALSE, msg |-> "number too large to fit in target type"]
     ELSE [ok |-> TRUE, digits |-> mag]

\* str::parse::<i64>: an optional sign, then one digit or more
ParseI64(text) ==
  LET signed == text # << >> /\ text[1] \in {Ch_plus, Ch_minus}
      body == IF signed THEN Tail(text) ELSE text
      negative == signed /\ text[1] = Ch_minus
      mag == StripZeros(body)
  IN IF text = << >>
     THEN [ok |-> FALSE, msg |-> "cannot parse integer from empty string"]
     ELSE IF body = << >> \/ \E j \in 1..Len(body) : ~IsDigit(body[j])
     THEN [ok |-> FALSE, msg |-> "invalid digit found in string"]
     ELSE IF Exceeds(mag, IF negative THEN I64MinDigits ELSE I64MaxDigits)
     THEN [ok |-> FALSE, msg |-> "number too large to fit in target type"]
     ELSE [ok |-> TRUE, neg |-> negative /\ mag # << Ch_0 >>, digits |-> mag]

\* The value of a digit text of at most 9 digits
RECURSIVE SmallValue(_)
SmallValue(ds) ==
  IF ds = << >> THEN 0
  ELSE 10 * SmallValue(SubSeq(ds, 1, Len(ds) - 1)) + (ds[Len(ds)] - Ch_0)

IsSmall(mag) == Len(mag) <= 9

\* usize::MAX - n when n is within UsizeMaxLow of usize::MAX, else -1 (the
\* distance is then more than UsizeMaxLow)
GapToMax(mag) ==
  IF Len(mag) = Len(UsizeMaxDigits)
     /\ SubSeq(mag, 1, Len(UsizeMaxHead)) = UsizeMaxHead
  THEN UsizeMaxLow - SmallValue(SubSeq(mag, Len(UsizeMaxHead) + 1, Len(mag)))
  ELSE -1

\* delimiter_index + 1 + length exceeds usize::MAX (inputs are shorter
\* than UsizeMaxLow bytes)
SumWraps(delimiter_index, mag) ==
  GapToMax(mag) >= 0 /\ delimiter_index + 1 > GapToMax(mag)

\* The byte string branch once the delimiter is found (the bytes before the
\* delimiter are ASCII in every input below, so from_utf8 succeeds)
DecodeByteString(input, delimiter_index) ==
  LET length == ParseUsize(Slice(input, 0, delimiter_index))
      start == delimiter_index + 1
  IN IF ~length.ok THEN Err(length.msg)
     ELSE IF IsSmall(length.digits)
     THEN LET n == SmallValue(length.digits)
          IN IF start + n > Len(input)
             THEN Err("premature end of byte string")
             ELSE Ok(Slice(input, start + n, Len(input)),
                     ByteString(Slice(input, start, start + n)))
     ELSE IF SumWraps(delimiter_index, length.digits)
     THEN \* with overflow checks the addition panics; without them the sum
          \* wraps to delimiter_index - gap, which is not above input.len(),
          \* and the slice from start to it panics
          IF overflow_checks
          THEN Panic("attempt to add with overflow")
          ELSE Panic("slice index starts after its end")
     ELSE Err("premature end of byte string")

\* The integer branch once the terminator is found: the rest starts after it
IntegerRest_KeepsTerminator(input, end_index) ==
  Slice(input, end_index, Len(input))

IntegerRest(input, end_index) == Slice(input, end_index + 1, Len(input))

DecodeInteger(input, end_index) ==
  LET value == ParseI64(Slice(input, 1, end_index))
  IN IF ~value.ok THEN Err(value.msg)
     ELSE Ok(IntegerRest(input, end_index), Integer(value.neg, value.digits))

\* Ord for BencodeByteString: the derived order of the byte slice
RECURSIVE SliceLess(_, _)
SliceLess(a, b) ==
  IF b = << >> THEN FALSE
  ELSE IF a = << >> THEN TRUE
  ELSE IF a[1] # b[1] THEN a[1] < b[1]
  ELSE SliceLess(Tail(a), Tail(b))

\* BTreeMap::insert: the entry of an equal key is replaced, a new key takes
\* its place in the order
BTreeInsert_Push(map, key, value) ==
  Append(map, << key, value >>)

BTreeInsert(map, key, value) ==
  LET before == SelectSeq(map, LAMBDA en : SliceLess(en[1], key))
      after == SelectSeq(map, LAMBDA en : SliceLess(key, en[1]))
  IN before \o << << key, value >> >> \o after

RECURSIVE Decode(_), DecodeList(_, _), DecodeDictionary(_, _)

\* BencodeValue::from_bytes
Decode(input) ==
  IF input = << >> THEN Panic("index out of bounds")
  ELSE IF IsDigit(input[1])
  THEN IF Position(input, Ch_colon) < 0
       THEN Err("premature end of byte string")
       ELSE DecodeByteString(input, Position(input, Ch_colon))
  ELSE IF input[1] = Ch_i
  THEN IF Position(input, Ch_e) < 0
       THEN Err("premature end of integer")
       ELSE DecodeInteger(input, Position(input, Ch_e))
  ELSE IF input[1] = Ch_l THEN DecodeList(Tail(input), << >>)
  ELSE IF input[1] = Ch_d THEN DecodeDictionary(Tail(input), << >>)
  ELSE Err("invalid bencode value")

\* The loop of the list branch
DecodeList(rest, values) ==
  IF rest = << >> THEN Err("premature end of list")
  ELSE IF rest[1] = Ch_e THEN Ok(Tail(rest), List(values))
  ELSE LET item == Decode(rest)
       IN IF item.kind # "ok" THEN item
          ELSE DecodeList(item.rest, Append(values, item.value))

\* The loop of the dictionary branch: the key's shape is looked at after
\* the value is read
DecodeDictionary(rest, map) ==
  IF rest = << >> THEN Err("premature end of dictionary")
  ELSE IF rest[1] = Ch_e THEN Ok(Tail(rest), Dictionary(map))
  ELSE LET key == Decode(rest)
       IN IF key.kind # "ok" THEN key
          ELSE LET value == Decode(key.rest)
               IN IF value.kind # "ok" THEN value
                  ELSE IF key.value.type # "ByteString"
                  THEN Err("non-byte string dictionary key")
                  ELSE DecodeDictionary(value.rest,
                         BTreeInsert(map, key.value.bytes, value.value))

\* The decimal text of a length
RECURSIVE Decimal(_)
Decimal(n) ==
  IF n < 10 THEN << Ch_0 + n >> ELSE Decimal(n \div 10) \o << Ch_0 + (n % 10) >>

RECURSIVE Encode(_), EncodeItems(_), EncodeEntries(_)

\* BencodeValue::to_bytes
Encode(v) ==
  CASE v.type = "ByteString" -> Decimal(Len(v.bytes)) \o << Ch_colon >> \o v.bytes
    [] v.type = "Integer" ->
         << Ch_i >> \o (IF v.neg THEN << Ch_minus >> ELSE << >>) \o v.digits
                    \o << Ch_e >>
    [] v.type = "List" -> << Ch_l >> \o EncodeItems(v.items) \o << Ch_e >>
    [] v.type = "Dictionary" ->
         << Ch_d >> \o EncodeEntries(v.entries) \o << Ch_e >>

EncodeItems(items) ==
  IF items = << >> THEN << >>
  ELSE Encode(items[1]) \o EncodeItems(Tail(items))

EncodeEntries(entries) ==
  IF entries = << >> THEN << >>
  ELSE Encode(ByteString(entries[1][1])) \o Encode(entries[1][2])
         \o EncodeEntries(Tail(entries))

(***************************************************************************)
(* The inputs of the decoder                                               *)
(***************************************************************************)
Alphabet == {Ch_0, Ch_0 + 1, Ch_colon, Ch_i, Ch_e, Ch_l, Ch_d, Ch_minus}

\* Every byte sequence over Alphabet of at most MaxLen bytes
ShortInputs == UNION { [1..n -> Alphabet] : n \in 0..MaxLen }

\* Dictionary documents, given as the list of their pairs: a pair is the
\* bytes of its key and the bytes of its value
KeySegments ==
  { << Ch_0, Ch_colon >>,
    << Ch_0 + 1, Ch_colon, Ch_0 + 1 >>,
    << Ch_0 + 2, Ch_colon, Ch_0, Ch_0 >>,
    << Ch_i, Ch_0, Ch_e >> }

ValueSegments ==
  { << Ch_i, Ch_0, Ch_e >>, << Ch_i, Ch_0 + 1, Ch_e >>, << Ch_l, Ch_e >> }

PairLists == UNION { [1..n -> KeySegments \X ValueSegments] : n \in 1..MaxPairs }

RECURSIVE PairBytes(_)
PairBytes(pairs) ==
  IF pairs = << >> THEN << >>
  ELSE pairs[1][1] \o pairs[1][2] \o PairBytes(Tail(pairs))

DictionaryInput(pairs) == << Ch_d >> \o PairBytes(pairs) \o << Ch_e >>

\* Byte strings whose declared length is usize::MAX - gap, or usize::MAX + 1
LengthInputs ==
  { UsizeMaxHead \o ThreeDigits(low) \o << Ch_colon >> \o [j \in 1..t |-> Ch_0] :
      low \in (UsizeMaxLow - MaxGap)..(UsizeMaxLow + 1), t \in 0..MaxTail }

\* pairs with the two at positions j and j + 1 exchanged
SwapPairs(pairs, j) ==
  [m \in 1..Len(pairs) |->
     IF m = j THEN pairs[j + 1] ELSE IF m = j + 1 THEN pairs[j] ELSE pairs[m]]

(***************************************************************************)
(* The decoder at work: main's decode command (from_str), the re-encoding  *)
(* of info_hash, and the decoding of what was encoded                      *)
\* parse_peers has not returned
NotParsed == [kind |-> "none"]

\* No tracker response is parsed
TrackerAbsent ==
  /\ tr_input = << >>
  /\ tr_result = NotParsed

\* No tracker URL is built
AnnounceAbsent ==
  /\ url_digest = << >>
  /\ url_info_hash = << >>
  /\ url_i = 0
  /\ url_encoded = << >>
  /\ url_phase = None

\* No torrent file is parsed
MetainfoAbsent ==
  /\ mi_input = << >>
  /\ mi_result = NotParsed

\* No piece is laid out
LayoutAbsent ==
  /\ lay_torrent = None
  /\ lay_piece = 0
  /\ lay_lengths = << >>
  /\ lay_requests = << >>

\* No decoder runs in the peer session
BencodeAbsent ==
  /\ bc_input = << >>
  /\ bc_pairs = << >>
  /\ bc_trunc = FALSE
  /\ bc_phase = None
  /\ bc_result = None
  /\ bc_encoded = None
  /\ bc_again = None
  /\ overflow_checks = FALSE

----------------------------------------------------------------------------
(* Initial state: main has parsed the torrent and TcpStream::connect returned *)

Init ==
    /\ \E run \in Runs : torrent = run[1] /\ cmd = run[2]
    /\ pc = "send_handshake"
    /\ result = "running"
    /\ state = "Connected"
    /\ peer_id = None
    /\ dl_i = 0
    /\ piece_index = 0
    /\ block_states = <<>>
    /\ piece = <<>>
    /\ received = <<>>
    /\ sent = <<>>
    /\ progress = 0
    /\ files = [i \in {} |-> 0]
    /\ output = None
    /\ BencodeAbsent
    /\ LayoutAbsent
    /\ TrackerAbsent
    /\ AnnounceAbsent
    /\ MetainfoAbsent

\* The command ends: every error is propagated by `?` up to main.
Exit(r) ==
    /\ pc' = "exit"
    /\ result' = r

----------------------------------------------------------------------------
(* connect: send_handshake, receive_handshake *)

\* The peer ids of the model: the handshake command, which ends once the peer
\* id is known, meets two of them
PeerIds == IF cmd = "handshake" THEN {"peer-A", "peer-B"} ELSE {"peer-A"}

\* The 68 bytes the peer answers the handshake with: byte 0, bytes 1..20,
\* bytes 28..48 and bytes 48..68.  eof: the stream ends before 68 bytes.
HandshakeReplies ==
    { [eof |-> e, pstrlen |-> l, pstr |-> s, info_hash |-> h, peer_id |-> p] :
        e \in {FALSE}, l \in {19, 18}, s \in {"BitTorrent protocol", "BitTorrent protocoL"},
        h \in {"info-hash", "other-hash"}, p \in PeerIds }
    \cup { [eof |-> TRUE, pstrlen |-> 0, pstr |-> "", info_hash |-> "", peer_id |-> ""] }

\* The reply accepted on its length byte alone
HandshakeDecode_LengthOnly(reply) ==
    IF reply.pstrlen # 19
    THEN [kind |-> "unsupported protocol", peer_id |-> None]
    ELSE [kind |-> "ok", peer_id |-> reply.peer_id]

\* Handshake::decode
HandshakeDecode(reply) ==
    IF reply.pstrlen # 19 \/ reply.pstr # "BitTorrent protocol"
    THEN [kind |-> "unsupported protocol", peer_id |-> None]
    ELSE [kind |-> "ok", peer_id |-> reply.peer_id]

send_handshake ==
    /\ pc = "send_handshake"
    /\ \/ /\ sent' = Append(sent, HandshakeMsg)
          /\ state' = "WaitingForHandshake"
          /\ pc' = "receive_handshake"
          /\ UNCHANGED result
       \/ /\ Exit("io error")
          /\ UNCHANGED <<sent, state>>
    /\ UNCHANGED <<pure_vars, torrent, cmd, peer_id, dl_i, piece_index, block_states, piece,
                   received, progress, files, output>>

\* receive_handshake when the bytes read are reply
receive_handshake_reply(reply) ==
    /\ pc = "receive_handshake"
    /\ state = "WaitingForHandshake"
    /\   LET h == HandshakeDecode(reply) IN
         IF reply.eof
         THEN Exit("io error") /\ UNCHANGED <<peer_id, state, progress>>
         ELSE IF h.kind # "ok"
         THEN Exit(h.kind) /\ UNCHANGED <<peer_id, state, progress>>
         ELSE /\ peer_id' = h.peer_id
              /\ state' = "WaitingForBitfield"
              /\ progress' = Advance(progress, "in", "handshake")
              /\ pc' = "connected"
              /\ UNCHANGED result
    /\ UNCHANGED <<pure_vars, torrent, cmd, dl_i, piece_index, block_states, piece, received,
                   sent, files, output>>

receive_handshake ==
    /\ pc = "receive_handshake"
    /\ \E reply \in HandshakeReplies : receive_handshake_reply(reply)

----------------------------------------------------------------------------
(* download_piece *)

\* Lines 393-400: the block states and the piece buffer of a new call.
StartPiece(i) ==
    /\ piece_index' = i
    /\ block_states' = [k \in 0..(BlockCount(torrent, i) - 1) |-> "None"]
    /\ piece' = ZeroPiece(PieceLength(torrent, i))
    /\ received' = [k \in 0..(BlockCount(torrent, i) - 1) |-> -1]

\* The guard letting every state past WaitingForBitfield through
EnterDownloadPiece_AnyState(i) ==
    IF state = "WaitingForBitfield"
    THEN /\ pc' = "receive_bitfield"
         /\ piece_index' = i
         /\ UNCHANGED <<result, block_states, piece, received>>
    ELSE /\ pc' = "loop"
         /\ StartPiece(i)
         /\ UNCHANGED result

\* Lines 376-382: the guard on the connection state.
EnterDownloadPiece(i) ==
    CASE state = "WaitingForBitfield" ->
            /\ pc' = "receive_bitfield"
            /\ piece_index' = i
            /\ UNCHANGED <<result, block_states, piece, received>>
      [] state \in {"ReadyToExpressInterest", "ReadyToRequest"} ->
            /\ pc' = "loop"
            /\ StartPiece(i)
            /\ UNCHANGED result
      [] OTHER ->
            /\ Exit("invalid state")
            /\ UNCHANGED <<piece_index, block_states, piece, received>>

\* Any message taken for the bitfield
IsBitfield_AnyMessage(r) == TRUE

\* Line 332: `PeerMessage::Bitfield(_) =>`
IsBitfield(r) == r.tag = "bitfield"

\* receive_bitfield when the frame read is f
receive_bitfield_frame(f) ==
    /\ pc = "receive_bitfield"
    /\ state = "WaitingForBitfield"
    /\   LET r == receive_message(f) IN
         /\ progress' = AfterReceive(progress, r)
         /\ IF r.kind # "msg"
            THEN Exit(r.kind)
                 /\ UNCHANGED <<state, piece_index, block_states, piece, received>>
            ELSE IF ~IsBitfield(r)
            THEN Exit("unexpected message")
                 /\ UNCHANGED <<state, piece_index, block_states, piece, received>>
            ELSE /\ state' = "ReadyToExpressInterest"
                 /\ StartPiece(piece_index)
                 /\ pc' = "loop"
                 /\ UNCHANGED result
    /\ UNCHANGED <<pure_vars, torrent, cmd, peer_id, dl_i, sent, files, output>>

receive_bitfield ==
    /\ pc = "receive_bitfield"
    /\ \E f \in Frames(torrent, piece_index) : receive_bitfield_frame(f)

\* Loop, state ReadyToExpressInterest
express_interest ==
    /\ pc = "loop"
    /\ state = "ReadyToExpressInterest"
    /\ \/ /\ sent' = Append(sent, InterestedMsg)
          /\ state' = "WaitingForUnchoke"
          /\ progress' = Advance(progress, "out", "interested")
          /\ UNCHANGED <<pc, result>>
       \/ /\ Exit("io error")
          /\ UNCHANGED <<sent, state, progress>>
    /\ UNCHANGED <<pure_vars, torrent, cmd, peer_id, dl_i, piece_index, block_states, piece,
                   received, files, output>>

\* Line 410: `if let PeerMessage::Unchoke = msg`
IsUnchoke_AnyMessage(r) == TRUE

IsUnchoke(r) == r.tag = "unchoke"

\* Loop, state WaitingForUnchoke, when the frame read is f
wait_for_unchoke_frame(f) ==
    /\ pc = "loop"
    /\ state = "WaitingForUnchoke"
    /\   LET r == receive_message(f) IN
         /\ progress' = AfterReceive(progress, r)
         /\ IF r.kind # "msg"
            THEN Exit(r.kind) /\ UNCHANGED state
            ELSE IF IsUnchoke(r)
            THEN /\ state' = "ReadyToRequest"
                 /\ UNCHANGED <<pc, result>>
            ELSE UNCHANGED <<pc, result, state>>
    /\ UNCHANGED <<pure_vars, torrent, cmd, peer_id, dl_i, piece_index, block_states, piece,
                   received, sent, files, output>>

\* Loop, state WaitingForUnchoke
wait_for_unchoke ==
    /\ pc = "loop"
    /\ state = "WaitingForUnchoke"
    /\ \E f \in Frames(torrent, piece_index) : wait_for_unchoke_frame(f)

\* The requests for blocks lo..hi of the current piece, in order.
Requests(lo, hi) ==
    [j \in 1..(hi - lo + 1) |-> RequestMsg(torrent, piece_index, lo + j - 1)]

\* No request sent ahead
InitialRequests_NoneAhead(block_count) == 0

\* Line 418: `.take(block_count.min(MAX_CONCURRENT_REQUESTS))`
InitialRequests(block_count) == Min(block_count, MAX_CONCURRENT_REQUESTS)

\* Loop, state ReadyToRequest: the first min(block_count, 5) requests.  A
\* failed write ends the call after the k requests already written.
send_requests ==
    /\ pc = "loop"
    /\ state = "ReadyToRequest"
    /\ LET n == InitialRequests(BlockCount(torrent, piece_index)) IN
       \E k \in 0..n :
         /\ sent' = sent \o Requests(0, k - 1)
         /\ block_states' = [b \in DOMAIN block_states |->
                                IF b < k THEN "Requested" ELSE block_states[b]]
         /\ IF k = n
            THEN state' = "GettingPieces" /\ UNCHANGED <<pc, result>>
            ELSE Exit("io error") /\ UNCHANGED state
    /\ UNCHANGED <<pure_vars, torrent, cmd, peer_id, dl_i, piece_index, piece, received,
                   progress, files, output>>

\* Line 469: block_states.iter().all(|s| *s == BlockState::Downloaded)
AllDownloaded_Unchecked(bs) == TRUE

AllDownloaded(bs) == \A k \in DOMAIN bs : bs[k] = "Downloaded"

\* The last block that is None
FirstNone_Last(bs) ==
    CHOOSE k \in DOMAIN bs : bs[k] = "None" /\ \A j \in DOMAIN bs : bs[j] = "None" => j <= k

\* Line 455: block_states.iter().position(|s| *s == BlockState::None), when
\* there is one
FirstNone(bs) ==
    CHOOSE k \in DOMAIN bs : bs[k] = "None" /\ \A j \in DOMAIN bs : bs[j] = "None" => k <= j

\* Lines 442-473: a piece message for the current piece.
HandlePiece(f) ==
    LET block_count == BlockCount(torrent, piece_index)
        block_index == f.begin \div BLOCK_LEN
        block_len == BlockLen(torrent, piece_index, block_index)
        marked == [block_states EXCEPT ![block_index] = "Downloaded"]
        nones == { k \in DOMAIN marked : marked[k] = "None" }
        next_block_index == FirstNone(marked)
    IN  IF block_index >= block_count
        THEN \* line 447: block_states[block_index], index out of bounds
             /\ Exit("panic")
             /\ UNCHANGED <<state, block_states, piece, received, sent>>
        ELSE IF \/ f.begin + block_len > PieceLength(torrent, piece_index)
                \/ f.len - 9 # block_len
        THEN \* line 453: the slice, or copy_from_slice on slices of different
             \* lengths, panics after line 447 marked the block
             /\ Exit("panic")
             /\ block_states' = marked
             /\ UNCHANGED <<state, piece, received, sent>>
        ELSE /\ piece' = CopyFromSlice(piece, f.begin, block_len, f.fill)
             /\ received' = [received EXCEPT ![block_index] = f.fill]
             /\ IF nones # {}
                THEN \/ /\ sent' = Append(sent, RequestMsg(torrent, piece_index, next_block_index))
                        /\ block_states' = [marked EXCEPT ![next_block_index] = "Requested"]
                        /\ UNCHANGED <<pc, result, state>>
                     \/ /\ Exit("io error")
                        /\ block_states' = marked
                        /\ UNCHANGED <<sent, state>>
                ELSE IF AllDownloaded(marked)
                THEN /\ state' = "ReadyToRequest"
                     /\ pc' = "verify"
                     /\ block_states' = marked
                     /\ UNCHANGED <<result, sent>>
                ELSE /\ block_states' = marked
                     /\ UNCHANGED <<pc, result, state, sent>>

\* A have taken for a piece message
IsPiece_OrHave(r) == r.tag \in {"piece", "have"}

\* Line 436: `if let PeerMessage::Piece { index, begin, block } = msg`
IsPiece(r) == r.tag = "piece"

\* A piece message taken for the current piece whatever its index
ForThisPiece_AnyIndex(f) == TRUE

\* Line 442: `index as usize != piece_index`, negated
ForThisPiece(f) == f.index = piece_index

\* Loop, state GettingPieces, when the frame read is f
get_pieces_frame(f) ==
    /\ pc = "loop"
    /\ state = "GettingPieces"
    /\   LET r == receive_message(f) IN
         /\ progress' = AfterReceive(progress, r)
         /\ IF r.kind # "msg"
            THEN Exit(r.kind) /\ UNCHANGED <<state, block_states, piece, received, sent>>
            ELSE IF ~IsPiece(r) \/ ~ForThisPiece(f)
            THEN UNCHANGED <<pc, result, state, block_states, piece, received, sent>>
            ELSE HandlePiece(f)
    /\ UNCHANGED <<pure_vars, torrent, cmd, peer_id, dl_i, piece_index, files, output>>

\* Loop, state GettingPieces
get_pieces ==
    /\ pc = "loop"
    /\ state = "GettingPieces"
    /\ \E f \in Frames(torrent, piece_index) : get_pieces_frame(f)

\* Lines 480-486: the digest of the buffer against slot piece_index of `pieces`.
HashMatches_Unchecked(buf, expected) == TRUE

HashMatches(buf, expected) == Sha1(buf) = expected

\* Lines 480-491: the SHA-1 check and the write of the piece file.
verify ==
    /\ pc = "verify"
    /\ IF piece_index \notin DOMAIN piece_hashes(torrent)
       THEN Exit("panic") /\ UNCHANGED <<files, dl_i>>
       ELSE IF ~HashMatches(piece, piece_hashes(torrent)[piece_index])
       THEN Exit("incorrect piece hash") /\ UNCHANGED <<files, dl_i>>
       ELSE /\ files' = [i \in DOMAIN files \cup {piece_index} |->
                            IF i = piece_index THEN piece ELSE files[i]]
            /\ IF cmd = "download"
               THEN pc' = "download" /\ dl_i' = dl_i + 1 /\ UNCHANGED result
               ELSE Exit("ok") /\ UNCHANGED dl_i
    /\ UNCHANGED <<pure_vars, torrent, cmd, state, peer_id, piece_index, block_states, piece,
                   received, sent, progress, output>>

----------------------------------------------------------------------------
(* main and download *)

main_handshake ==
    /\ pc = "connected"
    /\ cmd = "handshake"
    /\ Exit("ok")
    /\ UNCHANGED <<pure_vars, torrent, cmd, state, peer_id, dl_i, piece_index, block_states,
                   piece, received, sent, progress, files, output>>

main_download_piece ==
    /\ pc = "connected"
    /\ cmd = "download_piece"
    /\ \E i \in 0..(piece_count(torrent) - 1) : EnterDownloadPiece(i)
    /\ UNCHANGED <<pure_vars, torrent, cmd, state, peer_id, dl_i, sent, progress, files, output>>

main_download ==
    /\ pc = "connected"
    /\ cmd = "download"
    /\ pc' = "download"
    /\ dl_i' = 0
    /\ UNCHANGED <<pure_vars, torrent, cmd, result, state, peer_id, piece_index, block_states,
                   piece, received, sent, progress, files, output>>

\* The piece files written out last piece first
OutputFile_Reversed(fs) ==
    [i \in 0..(piece_count(torrent) - 1) |-> fs[piece_count(torrent) - 1 - i]]

\* Lines 355-367: the piece files read and written out in index order
OutputFile(fs) == [i \in 0..(piece_count(torrent) - 1) |-> fs[i]]

\* download: the next piece, or the output file once every piece is there.
download ==
    /\ pc = "download"
    /\ IF dl_i < piece_count(torrent)
       THEN EnterDownloadPiece(dl_i) /\ UNCHANGED output
       ELSE /\ output' = OutputFile(files)
            /\ Exit("ok")
            /\ UNCHANGED <<piece_index, block_states, piece, received>>
    /\ UNCHANGED <<pure_vars, torrent, cmd, state, peer_id, dl_i, sent, progress, files>>

----------------------------------------------------------------------------

Next ==
    \/ send_handshake
    \/ receive_handshake
    \/ main_handshake
    \/ main_download_piece
    \/ main_download
    \/ download
    \/ receive_bitfield
    \/ express_interest
    \/ wait_for_unchoke
    \/ send_requests
    \/ get_pieces
    \/ verify

Spec == Init /\ [][Next]_vars

----------------------------------------------------------------------------
(***************************************************************************)
PeerAbsent ==
  /\ torrent = None
  /\ cmd = "decode"
  /\ pc = "decode"
  /\ result = "running"
  /\ state = None
  /\ peer_id = None
  /\ dl_i = 0
  /\ piece_index = 0
  /\ block_states = << >>
  /\ piece = << >>
  /\ received = << >>
  /\ sent = << >>
  /\ progress = 0
  /\ files = [i \in {} |-> 0]
  /\ output = None

InitBencode ==
  /\ PeerAbsent
  /\ LayoutAbsent
  /\ TrackerAbsent
  /\ AnnounceAbsent
  /\ MetainfoAbsent
  /\ \/ bc_input \in ShortInputs \cup LengthInputs /\ bc_pairs = << >>
     \/ bc_pairs \in PairLists /\ bc_input = DictionaryInput(bc_pairs)
  /\ bc_trunc = FALSE
  /\ bc_phase = "input"
  /\ bc_result = None
  /\ bc_encoded = None
  /\ bc_again = None
  /\ overflow_checks \in BOOLEAN

decode ==
  /\ bc_phase = "input"
  /\ bc_result' = Decode(bc_input)
  /\ bc_phase' = "decoded"
  /\ UNCHANGED << bc_input, bc_pairs, bc_trunc, bc_encoded, bc_again,
                  overflow_checks, peer_vars, announce_vars, metainfo_vars, layout_vars,
                  tracker_vars >>

to_bytes ==
  /\ bc_phase = "decoded"
  /\ bc_result.kind = "ok"
  /\ bc_encoded' = Encode(bc_result.value)
  /\ bc_phase' = "encoded"
  /\ UNCHANGED << bc_input, bc_pairs, bc_trunc, bc_result, bc_again,
                  overflow_checks, peer_vars, announce_vars, metainfo_vars, layout_vars,
                  tracker_vars >>

decode_encoded ==
  /\ bc_phase = "encoded"
  /\ bc_again' = Decode(bc_encoded)
  /\ bc_phase' = "redecoded"
  /\ UNCHANGED << bc_input, bc_pairs, bc_trunc, bc_result, bc_encoded,
                  overflow_checks, peer_vars, announce_vars, metainfo_vars, layout_vars,
                  tracker_vars >>

\* The stream ends early: a complete document is cut to a proper prefix of
\* one byte or more and decoded
decode_truncated ==
  /\ bc_phase = "decoded"
  /\ ~bc_trunc
  /\ bc_result.kind = "ok"
  /\ bc_result.rest = << >>
  /\ \E n \in 1..(Len(bc_input) - 1) :
       /\ bc_input' = SubSeq(bc_input, 1, n)
       /\ bc_result' = Decode(SubSeq(bc_input, 1, n))
  /\ bc_trunc' = TRUE
  /\ bc_pairs' = << >>
  /\ UNCHANGED << bc_phase, bc_encoded, bc_again, overflow_checks, peer_vars, announce_vars, metainfo_vars, layout_vars,
                  tracker_vars >>

\* The same pairs in another order: two neighbours change places and the
\* document is decoded
decode_permuted ==
  /\ bc_phase = "decoded"
  /\ \E j \in 1..(Len(bc_pairs) - 1) :
       /\ bc_pairs' = SwapPairs(bc_pairs, j)
       /\ bc_input' = DictionaryInput(SwapPairs(bc_pairs, j))
       /\ bc_result' = Decode(DictionaryInput(SwapPairs(bc_pairs, j)))
  /\ UNCHANGED << bc_trunc, bc_phase, bc_encoded, bc_again, overflow_checks,
                  peer_vars, announce_vars, metainfo_vars, layout_vars,
                  tracker_vars >>

NextBencode ==
  \/ decode
  \/ to_bytes
  \/ decode_encoded
  \/ decode_truncated
  \/ decode_permuted

SpecBencode == InitBencode /\ [][NextBencode]_vars

----------------------------------------------------------------------------
(* The peer session: claims C1 to C5 *)

RequestsSent == { k \in DOMAIN sent : sent[k].tag = "request" }

\* C1: a request message is on the wire only after the handshake reply was
\* received, then a bitfield was received, then interested was sent, then an
\* unchoke was received: the session has passed all of ProtocolOrder, in order.
C1_RequestOnlyAfterUnchoke ==
    RequestsSent # {} => progress = Len(ProtocolOrder)

C1_Witness ==
    /\ RequestsSent # {}
    /\ progress = Len(ProtocolOrder)
    /\ state = "GettingPieces"

StateEdges ==
    { <<"Connected", "WaitingForHandshake">>,
      <<"WaitingForHandshake", "WaitingForBitfield">>,
      <<"WaitingForBitfield", "ReadyToExpressInterest">>,
      <<"ReadyToExpressInterest", "WaitingForUnchoke">>,
      <<"WaitingForUnchoke", "ReadyToRequest">>,
      <<"ReadyToRequest", "GettingPieces">>,
      <<"GettingPieces", "ReadyToRequest">> }

\* C2: the connection state changes only along StateEdges, and it steps back
\* from GettingPieces to ReadyToRequest only when every block of the piece is
\* Downloaded.
C2_OnlyListedTransitions ==
    [][ /\ state' # state => <<state, state'>> \in StateEdges
        /\ (state = "GettingPieces" /\ state' = "ReadyToRequest")
              => \A k \in DOMAIN block_states' : block_states'[k] = "Downloaded"
      ]_vars

C2_Witness ==
    /\ pc = "loop"
    /\ state = "GettingPieces"
    /\ dl_i = 1

\* C3: while a piece is downloaded, at most MAX_CONCURRENT_REQUESTS blocks are
\* Requested, whatever the peer sends.
C3_RequestedWithinWindow ==
    Cardinality({ k \in DOMAIN block_states : block_states[k] = "Requested" })
        <= MAX_CONCURRENT_REQUESTS

\* C4: when the receive loop is left, every block is Downloaded and the buffer,
\* of the piece's length, holds at every offset the payload last received for
\* the block the offset lies in.
C4_BufferIsConcatenation ==
    pc = "verify" =>
        /\ \A k \in DOMAIN block_states : block_states[k] = "Downloaded"
        /\ DOMAIN piece = Offsets(PieceLength(torrent, piece_index))
        /\ \A o \in DOMAIN piece : piece[o] = received[o \div BLOCK_LEN]

\* C5: every piece file holds bytes whose SHA-1 is slot piece_index of
\* `pieces`; a mismatch ends download_piece with "incorrect piece hash",
\* writes no piece file, and leaves download without an output file.
C5_WrittenOnlyIfHashMatches ==
    /\ [](\A i \in DOMAIN files :
            /\ i \in DOMAIN piece_hashes(torrent)
            /\ Sha1(files[i]) = piece_hashes(torrent)[i])
    /\ [](result = "incorrect piece hash" => piece_index \notin DOMAIN files /\ output = None)
    /\ [][ (/\ pc = "verify"
            /\ piece_index \in DOMAIN piece_hashes(torrent)
            /\ Sha1(piece) # piece_hashes(torrent)[piece_index])
              => /\ result' = "incorrect piece hash"
                 /\ files' = files
                 /\ output' = None
         ]_vars

C5_Witness ==
    /\ cmd = "download"
    /\ result = "incorrect piece hash"
    /\ dl_i = 1
    /\ DOMAIN files = {0}

----------------------------------------------------------------------------
(***************************************************************************)
(* The layout of a file in pieces and of a piece in blocks: the lengths    *)
(* download_piece computes (lines 384-399) and the requests it builds      *)
(* (lines 420-428 and 456-464), for every piece and block in turn          *)
(***************************************************************************)
MaxPieces == 3

\* Piece lengths at and around the multiples of the block length
LayoutPieceLengths ==
  {1, 2, BLOCK_LEN - 1, BLOCK_LEN, BLOCK_LEN + 1, 2 * BLOCK_LEN, 2 * BLOCK_LEN + 1}

\* File lengths at and around the multiples of the piece length
LayoutTorrents ==
  { t \in [length : { m * pl + d : m \in 0..MaxPieces, pl \in LayoutPieceLengths,
                                   d \in {0, 1, BLOCK_LEN} },
           piece_length : LayoutPieceLengths] :
      /\ t.length >= 1
      /\ piece_count(t) <= MaxPieces + 1 }

InitLayout ==
  /\ PeerAbsent
  /\ BencodeAbsent
  /\ TrackerAbsent
  /\ AnnounceAbsent
  /\ MetainfoAbsent
  /\ lay_torrent \in LayoutTorrents
  /\ lay_piece = 0
  /\ lay_lengths = << >>
  /\ lay_requests = << >>

\* Lines 384-392
compute_piece_length ==
  /\ lay_piece < piece_count(lay_torrent)
  /\ Len(lay_lengths) = lay_piece
  /\ lay_lengths' = Append(lay_lengths, PieceLength(lay_torrent, lay_piece))
  /\ UNCHANGED << lay_torrent, lay_piece, lay_requests, peer_vars, announce_vars, metainfo_vars, bencode_vars,
                  tracker_vars >>

\* Lines 420-428 and 456-464: the request for the next block of the piece
build_request ==
  /\ Len(lay_lengths) = lay_piece + 1
  /\ Len(lay_requests) < BlockCount(lay_torrent, lay_piece)
  /\ lay_requests' =
       Append(lay_requests, RequestMsg(lay_torrent, lay_piece, Len(lay_requests)))
  /\ UNCHANGED << lay_torrent, lay_piece, lay_lengths, peer_vars, announce_vars, metainfo_vars, bencode_vars,
                  tracker_vars >>

\* download: the next piece
next_piece ==
  /\ Len(lay_lengths) = lay_piece + 1
  /\ Len(lay_requests) = BlockCount(lay_torrent, lay_piece)
  /\ lay_piece' = lay_piece + 1
  /\ lay_requests' = << >>
  /\ UNCHANGED << lay_torrent, lay_lengths, peer_vars, announce_vars, metainfo_vars, bencode_vars,
                  tracker_vars >>

NextLayout ==
  \/ compute_piece_length
  \/ build_request
  \/ next_piece

SpecLayout == InitLayout /\ [][NextLayout]_vars

----------------------------------------------------------------------------
(***************************************************************************)
(* The compact peers list of a tracker response (tracker.rs: parse_peers)  *)
(***************************************************************************)
MaxPeersLen == 12

\* The byte values the peers byte string is made of
PeerBytes == {1, 255}

PeersInputs == UNION { [1..n -> PeerBytes] : n \in 0..MaxPeersLen }

\* u16::from_be_bytes([hi, lo]) read low byte first
U16FromBeBytes_LowFirst(hi, lo) == lo * 256 + hi

\* u16::from_be_bytes([hi, lo])
U16FromBeBytes(hi, lo) == hi * 256 + lo

\* SocketAddrV4::new(Ipv4Addr::new(a, b, c, d), port)
SocketAddrV4(a, b, c, d, port) == [ip |-> << a, b, c, d >>, port |-> port]

\* parse_peers
parse_peers(input) ==
  IF Len(input) % 6 # 0 THEN [kind |-> "err", msg |-> "invalid peers list"]
  ELSE [kind |-> "ok",
        peers |-> [j \in 1..(Len(input) \div 6) |->
                     LET i == 6 * (j - 1)
                     IN SocketAddrV4(input[i + 1], input[i + 2], input[i + 3],
                                     input[i + 4],
                                     U16FromBeBytes(input[i + 5], input[i + 6]))]]

InitTracker ==
  /\ PeerAbsent
  /\ BencodeAbsent
  /\ LayoutAbsent
  /\ AnnounceAbsent
  /\ MetainfoAbsent
  /\ tr_input \in PeersInputs
  /\ tr_result = NotParsed

\* get_peers hands the peers byte string of the response to parse_peers
get_peers_parse ==
  /\ tr_result = NotParsed
  /\ tr_result' = parse_peers(tr_input)
  /\ UNCHANGED << tr_input, peer_vars, announce_vars, metainfo_vars, bencode_vars, layout_vars >>

NextTracker ==
  \/ get_peers_parse

SpecTracker == InitTracker /\ [][NextTracker]_vars

----------------------------------------------------------------------------
(* The bencode codec: claims C6 to C10 *)

\* C6: for every value v that decode produced, decoding encode(v) returns
\* exactly v and leaves no byte unread.
C6_DecodeOfEncodeIsIdentity ==
    bc_phase = "redecoded" =>
        /\ bc_again.kind = "ok"
        /\ bc_again.value = bc_result.value
        /\ bc_again.rest = << >>

C6_Witness ==
    /\ bc_phase = "redecoded"
    /\ bc_result.value.type = "Dictionary"
    /\ Len(bc_result.value.entries) = 2
    /\ bc_result.value.entries[2][2].type = "List"
    /\ bc_again.kind = "ok"
    /\ bc_encoded # bc_input

\* a < b in the order of the raw bytes: at the first position where they
\* differ, or a is a proper prefix of b
RawByteLess(a, b) ==
    \/ Len(a) < Len(b) /\ SubSeq(b, 1, Len(a)) = a
    \/ \E j \in 1..Min(Len(a), Len(b)) :
         a[j] < b[j] /\ \A m \in 1..(j - 1) : a[m] = b[m]

KeysAscending(entries) ==
    \A j \in 1..(Len(entries) - 1) : RawByteLess(entries[j][1], entries[j + 1][1])

\* The keys of the pairs, as decode reads them
PairKey(pair) == Decode(pair[1]).value

KeysAreByteStrings(pairs) ==
    \A j \in 1..Len(pairs) : PairKey(pairs[j]).type = "ByteString"

KeysAreDistinct(pairs) ==
    \A j, m \in 1..Len(pairs) : j # m => PairKey(pairs[j]) # PairKey(pairs[m])

\* The document of the pairs was decoded to a Dictionary of ascending keys
DecodedAscending ==
    (bc_phase = "decoded" /\ bc_pairs # << >> /\ KeysAreByteStrings(bc_pairs)) =>
        /\ bc_result.kind = "ok"
        /\ bc_result.rest = << >>
        /\ bc_result.value.type = "Dictionary"
        /\ KeysAscending(bc_result.value.entries)

\* The pairs have changed places and the document was decoded again
Permuted == bc_pairs # << >> /\ bc_pairs' # << >> /\ bc_pairs' # bc_pairs

\* C7, as stated: decode accepts the pairs of a dictionary in any order, the
\* Dictionary it returns is the same for every permutation of the pairs, and
\* its keys are in ascending raw-byte order.
C7_SameDictionaryForEveryPermutation ==
    /\ []DecodedAscending
    /\ [][ Permuted => bc_result' = bc_result ]_vars

\* C7, amended: the same, for pairs whose keys are pairwise distinct.
C7_SameDictionaryForDistinctKeys ==
    /\ []DecodedAscending
    /\ [][ (Permuted /\ KeysAreByteStrings(bc_pairs) /\ KeysAreDistinct(bc_pairs))
             => bc_result' = bc_result ]_vars

C7_Witness ==
    /\ bc_phase = "decoded"
    /\ Len(bc_pairs) = 2
    /\ KeysAreByteStrings(bc_pairs)
    /\ RawByteLess(PairKey(bc_pairs[2]).bytes, PairKey(bc_pairs[1]).bytes)
    /\ bc_result.kind = "ok"
    /\ Len(bc_result.value.entries) = 2
    /\ bc_result.value.entries[1][1] = PairKey(bc_pairs[2]).bytes

\* An integer without its terminator, a byte string without its delimiter
IntegerUnterminated(input) ==
    input # << >> /\ input[1] = Ch_i /\ Position(input, Ch_e) < 0

ByteStringUndelimited(input) ==
    input # << >> /\ IsDigit(input[1]) /\ Position(input, Ch_colon) < 0

\* C8: decode returns an error, and no value, for a document that stops
\* before its end (an integer, list or dictionary without its terminator, a
\* byte string without its delimiter or shorter than declared) and for a
\* dictionary with a key that is not a byte string.
C8_MalformedInputIsAnError ==
    ( /\ bc_phase = "decoded"
      /\ \/ bc_trunc
         \/ IntegerUnterminated(bc_input)
         \/ ByteStringUndelimited(bc_input)
         \/ bc_pairs # << >> /\ ~KeysAreByteStrings(bc_pairs) )
    => bc_result.kind = "err"

\* A value is expected after a dictionary key and no byte remains
RECURSIVE EndsAfterKey(_)
EndsAfterKey(rest) ==
    /\ rest # << >>
    /\ rest[1] # Ch_e
    /\ LET key == Decode(rest)
       IN /\ key.kind = "ok"
          /\ \/ key.rest = << >>
             \/ LET value == Decode(key.rest)
                IN value.kind = "ok" /\ EndsAfterKey(value.rest)

EndsAfterDictionaryKey(input) ==
    input # << >> /\ input[1] = Ch_d /\ EndsAfterKey(Tail(input))

\* C9: decode returns an error, and does not abort, when a value is expected
\* and no byte remains: on the empty input and on an input that ends right
\* after a dictionary key.
C9_NoBytesLeftIsAnError ==
    ( /\ bc_phase = "decoded"
      /\ bc_input = << >> \/ EndsAfterDictionaryKey(bc_input) )
    => bc_result.kind = "err"

\* C10: for every declared length n that parses as a usize, decode returns
\* the n bytes after the delimiter as a ByteString (and the bytes after them
\* as the rest) when n bytes remain, and an error when they do not.
C10_DeclaredLengthIsBoundedByInput ==
    LET delimiter_index == Position(bc_input, Ch_colon)
        n == ParseUsize(Slice(bc_input, 0, delimiter_index))
        start == delimiter_index + 1
        remaining == Len(bc_input) - start
    IN ( /\ bc_phase = "decoded"
         /\ bc_input # << >>
         /\ IsDigit(bc_input[1])
         /\ delimiter_index >= 0
         /\ n.ok )
       => IF IsSmall(n.digits) /\ SmallValue(n.digits) <= remaining
          THEN /\ bc_result.kind = "ok"
               /\ bc_result.value =
                    ByteString(Slice(bc_input, start, start + SmallValue(n.digits)))
               /\ bc_result.rest =
                    Slice(bc_input, start + SmallValue(n.digits), Len(bc_input))
          ELSE bc_result.kind = "err"

----------------------------------------------------------------------------
(* The framed messages: claims C11, C12, C18 and C19 *)

\* The program is about to read a frame
Receiving ==
    \/ pc = "receive_bitfield"
    \/ pc = "loop" /\ state \in {"WaitingForUnchoke", "GettingPieces"}

\* The step the program takes when the frame it reads is f
ReceiveFrame(f) ==
    \/ receive_bitfield_frame(f)
    \/ wait_for_unchoke_frame(f)
    \/ get_pieces_frame(f)

\* The frame of length prefix 0
KeepAliveFrame == Frame(FALSE, 0, 0, 0, 0, 0)

\* What a frame that is ignored leaves as it was: no error, the connection
\* state, the block states, and the program still about to read a frame
Ignored ==
    /\ result' = "running"
    /\ state' = state
    /\ block_states' = block_states
    /\ pc' = pc

\* C11: wherever the program reads a frame after the handshake, a frame of
\* length prefix 0 is read and ignored: no error, no change of the connection
\* state or of a block state, and the program reads the next frame.
C11_KeepAliveIsIgnored ==
    Receiving =>
        /\ ENABLED ReceiveFrame(KeepAliveFrame)
        /\ ~ENABLED (ReceiveFrame(KeepAliveFrame) /\ ~Ignored)

\* The choke message
ChokeFrame == Frame(FALSE, 1, 0, 0, 0, 0)

\* The command has ended with an error
ReturnedError == pc' = "exit" /\ result' \notin {"running", "ok", "panic"}

\* C12: a choke read in GettingPieces ends download_piece with an error; the
\* program does not go on waiting for blocks.
C12_ChokeWhileGettingPiecesIsAnError ==
    (pc = "loop" /\ state = "GettingPieces") =>
        /\ ENABLED get_pieces_frame(ChokeFrame)
        /\ ~ENABLED (get_pieces_frame(ChokeFrame) /\ ~ReturnedError)

\* Frames whose tag byte is none of 0..8
BadTagFrames ==
    { Frame(FALSE, l, tg, 0, 0, 0) : l \in {1, 13}, tg \in {9, 20, 255} }

\* C18: wherever the program reads a frame, a frame whose tag is not in 0..8
\* makes receive_message return an error, which ends the command; the
\* connection state and the block states stay as they were.
C18_UnknownTagIsAnError ==
    Receiving =>
        \A f \in BadTagFrames :
            /\ ENABLED ReceiveFrame(f)
            /\ ~ENABLED (ReceiveFrame(f) /\ ~( /\ result' = "invalid peer message tag"
                                               /\ pc' = "exit"
                                               /\ state' = state
                                               /\ block_states' = block_states ))

C18_Witness ==
    /\ result = "invalid peer message tag"
    /\ pc = "exit"
    /\ state = "GettingPieces"
    /\ \E b \in DOMAIN block_states : block_states[b] = "Downloaded"

\* Frames whose payload is shorter than their tag requires: a have of 3
\* bytes, a request and a cancel of 11, a piece of 7
ShortFrames ==
    { Frame(FALSE, 4, 4, 0, 0, 0), Frame(FALSE, 12, 6, 0, 0, 0),
      Frame(FALSE, 12, 8, 0, 0, 0), Frame(FALSE, 8, 7, 0, 0, 0) }

\* C19: wherever the program reads a frame, a frame whose payload is shorter
\* than its tag requires gives an error result; the program does not abort.
C19_ShortPayloadIsAnError ==
    Receiving =>
        \A f \in ShortFrames :
            /\ ENABLED ReceiveFrame(f)
            /\ ~ENABLED (ReceiveFrame(f) /\ ~ReturnedError)

----------------------------------------------------------------------------
(* The layout in pieces and blocks: claims C13 and C14 *)

RECURSIVE SumSeq(_)
SumSeq(q) == IF q = << >> THEN 0 ELSE q[1] + SumSeq(Tail(q))

\* The length of piece i as the claim states it
StatedPieceLength(t, i) ==
    LET rest == t.length - t.piece_length * (piece_count(t) - 1)
    IN  IF i < piece_count(t) - 1 THEN t.piece_length
        ELSE IF rest = 0 THEN t.piece_length ELSE rest

\* C13: the length computed for piece i is piece_length before the last piece
\* and length - piece_length * (piece_count - 1) for the last one (piece_length
\* if that is zero); every piece length is in 1..piece_length, and the lengths
\* of all the pieces sum to the length of the file; length 1 with piece_length
\* 32768 gives one piece of 1 byte.
C13_PieceLengthsPartitionTheFile ==
    /\ \A j \in 1..Len(lay_lengths) :
         /\ lay_lengths[j] = StatedPieceLength(lay_torrent, j - 1)
         /\ lay_lengths[j] \in 1..lay_torrent.piece_length
    /\ Len(lay_lengths) = piece_count(lay_torrent)
         => SumSeq(lay_lengths) = lay_torrent.length
    /\ (lay_torrent.length = 1 /\ lay_lengths # << >>) => lay_lengths = << 1 >>

C13_Witness ==
    /\ Len(lay_lengths) = piece_count(lay_torrent)
    /\ piece_count(lay_torrent) = 3
    /\ lay_lengths[3] = 1
    /\ lay_torrent.piece_length = 2 * BLOCK_LEN

\* The requests built so far are for blocks of the piece, each at its block
\* boundary
RequestsAtBlockBoundaries ==
    \A j \in 1..Len(lay_requests) :
        /\ lay_requests[j].tag = "request"
        /\ lay_requests[j].index = lay_piece
        /\ \E k \in 0..(BlockCount(lay_torrent, lay_piece) - 1) :
             lay_requests[j].begin = k * 16384

\* Once every block of the piece is requested, the requested lengths sum to
\* the length of the piece
RequestsCoverThePiece ==
    Len(lay_requests) = BlockCount(lay_torrent, lay_piece)
        => SumSeq([j \in 1..Len(lay_requests) |-> lay_requests[j].length])
             = lay_lengths[lay_piece + 1]

IsLastBlock(r) ==
    r.begin = (BlockCount(lay_torrent, lay_piece) - 1) * 16384

\* C14, as stated: every request has begin = k * 16384 for a block k of the
\* piece and length 16384, except that the last block of the last piece may be
\* shorter; the requested lengths of a piece sum to the piece length.
C14_OnlyLastBlockOfLastPieceIsShort ==
    /\ RequestsAtBlockBoundaries
    /\ \A j \in 1..Len(lay_requests) :
         \/ lay_requests[j].length = 16384
         \/ /\ lay_piece = piece_count(lay_torrent) - 1
            /\ IsLastBlock(lay_requests[j])
            /\ lay_requests[j].length \in 1..16383
    /\ RequestsCoverThePiece

\* C14, amended: the same, with the last block of any piece allowed to be
\* shorter.
C14_OnlyLastBlockOfAPieceIsShort ==
    /\ RequestsAtBlockBoundaries
    /\ \A j \in 1..Len(lay_requests) :
         \/ lay_requests[j].length = 16384
         \/ /\ IsLastBlock(lay_requests[j])
            /\ lay_requests[j].length \in 1..16383
    /\ RequestsCoverThePiece

C14_Witness ==
    /\ lay_piece < piece_count(lay_torrent) - 1
    /\ Len(lay_requests) = 2
    /\ BlockCount(lay_torrent, lay_piece) = 2
    /\ lay_requests[1].length = 16384
    /\ lay_requests[2].length = 1

----------------------------------------------------------------------------
(* The order of requests and of pieces: claims C15 and C16 *)

\* The requests sent for piece i, in the order they were sent
PieceRequests(i) ==
    SelectSeq(sent, LAMBDA m : m.tag = "request" /\ m.index = i)

DownloadedBlocks == { k \in DOMAIN block_states : block_states[k] = "Downloaded" }

\* The requests of a piece were sent in strictly increasing block order
InBlockOrder(q) ==
    \A a, b \in 1..Len(q) : a < b => q[a].begin \div BLOCK_LEN < q[b].begin \div BLOCK_LEN

\* With k blocks Downloaded, the requests sent for the piece are those for
\* blocks 0 .. min(block_count, 5 + k) - 1, one each and in this order, and
\* the blocks after them are neither requested nor received
Pipelined ==
    LET q == PieceRequests(piece_index)
        n == Min(BlockCount(torrent, piece_index),
                 MAX_CONCURRENT_REQUESTS + Cardinality(DownloadedBlocks))
    IN  /\ Len(q) = n
        /\ \A j \in 1..n : q[j].begin = (j - 1) * BLOCK_LEN
        /\ \A b \in DOMAIN block_states : block_states[b] = "None" <=> b >= n

\* The step reads a block that was Requested
AnswersRequested ==
    /\ pc = "loop"
    /\ state = "GettingPieces"
    /\ \E b \in DOMAIN block_states :
         block_states[b] = "Requested" /\ block_states'[b] = "Downloaded"

\* C15: the requests of one download_piece call are sent in strictly
\* increasing block order; the first min(block_count, 5) requests are out when
\* GettingPieces is entered, and as long as each block read was a Requested
\* one (and the next request could be written), after k blocks the requests
\* sent are those for blocks 0 .. min(block_count, 5 + k) - 1.
C15_RequestsInOrderAndPipelined ==
    /\ [](\A i \in 0..(piece_count(torrent) - 1) : InBlockOrder(PieceRequests(i)))
    /\ [][ (state # "GettingPieces" /\ state' = "GettingPieces") => Pipelined' ]_vars
    /\ [][ (Pipelined /\ AnswersRequested /\ result' = "running") => Pipelined' ]_vars

C15_Witness ==
    /\ pc = "loop"
    /\ state = "GettingPieces"
    /\ BlockCount(torrent, piece_index) = MaxBlocks
    /\ Cardinality(DownloadedBlocks) = 1
    /\ Pipelined
    /\ Len(PieceRequests(piece_index)) = MAX_CONCURRENT_REQUESTS + 1
    /\ block_states[MAX_CONCURRENT_REQUESTS + 1] = "None"

\* Piece i was completed and passed its SHA-1 check: its piece file is there
Verified(i) ==
    /\ i \in DOMAIN files
    /\ Sha1(files[i]) = piece_hashes(torrent)[i]

\* C16: download sends the requests piece after piece in index order; a
\* request for a piece is sent only when every piece before it is completed
\* and verified; the output file is written only when the command succeeds,
\* and it is the verified pieces 0 .. piece_count - 1 in index order.
C16_PiecesInIndexOrder ==
    cmd = "download" =>
        /\ \A a, b \in 1..Len(sent) :
             (a < b /\ sent[a].tag = "request" /\ sent[b].tag = "request")
                => sent[a].index <= sent[b].index
        /\ \A j \in 1..Len(sent) :
             sent[j].tag = "request" => \A i \in 0..(sent[j].index - 1) : Verified(i)
        /\ result # "ok" => output = None
        /\ result = "ok" =>
             /\ DOMAIN output = 0..(piece_count(torrent) - 1)
             /\ \A i \in DOMAIN output : Verified(i) /\ output[i] = files[i]

C16_Witness ==
    /\ cmd = "download"
    /\ result = "ok"
    /\ piece_count(torrent) = 2
    /\ Len(PieceRequests(0)) = 2
    /\ Len(PieceRequests(1)) = 1
    /\ DOMAIN output = {0, 1}

----------------------------------------------------------------------------
(* The handshake reply: claim C17 *)

\* What receive_handshake does with a reply of 68 bytes, as the claim has it
HandshakeOutcome(reply) ==
    IF reply.pstrlen = 19 /\ reply.pstr = "BitTorrent protocol"
    THEN /\ peer_id' = reply.peer_id
         /\ state' = "WaitingForBitfield"
         /\ result' = "running"
    ELSE /\ result' = "unsupported protocol"
         /\ peer_id' = None
         /\ state' = "WaitingForHandshake"

\* C17: a reply of 68 bytes whose byte 0 is 19 and whose bytes 1..20 are
\* "BitTorrent protocol" has its bytes 48..68 stored as peer_id and moves the
\* connection to WaitingForBitfield, whatever its info-hash; every other
\* reply fails with "unsupported protocol" and leaves peer_id unset and the
\* state WaitingForHandshake.
C17_HandshakeReplyAccepted ==
    pc = "receive_handshake" =>
        \A reply \in { r \in HandshakeReplies : ~r.eof } :
            /\ ENABLED receive_handshake_reply(reply)
            /\ ~ENABLED (receive_handshake_reply(reply) /\ ~HandshakeOutcome(reply))

C17_Witness ==
    /\ pc = "connected"
    /\ state = "WaitingForBitfield"
    /\ peer_id = "peer-B"

----------------------------------------------------------------------------
(* The compact peers list: claim C20 *)

\* The bytes of group j (from 0) of the peers byte string
Group(j) == SubSeq(tr_input, 6 * j + 1, 6 * j + 6)

\* C20: parse_peers returns an error when the length of the peers byte string
\* is not a multiple of 6; otherwise it returns len / 6 addresses in input
\* order, the address of group j made of the group's first four bytes and the
\* port whose high byte is the fifth and whose low byte is the sixth.
C20_ParsePeers ==
    tr_result # NotParsed =>
        IF Len(tr_input) % 6 # 0
        THEN tr_result.kind = "err"
        ELSE /\ tr_result.kind = "ok"
             /\ Len(tr_result.peers) = Len(tr_input) \div 6
             /\ \A j \in 0..(Len(tr_input) \div 6 - 1) :
                  /\ tr_result.peers[j + 1].ip = SubSeq(Group(j), 1, 4)
                  /\ tr_result.peers[j + 1].port \div 256 = Group(j)[5]
                  /\ tr_result.peers[j + 1].port % 256 = Group(j)[6]

C20_Witness ==
    /\ tr_result.kind = "ok"
    /\ Len(tr_result.peers) = 2
    /\ tr_result.peers[1].ip = << 1, 255, 1, 1 >>
    /\ tr_result.peers[1].port = 511
    /\ tr_result.peers[2].port = 65281

----------------------------------------------------------------------------
(* Messages that are set aside while blocks arrive: claims C23 and C24 *)

\* The program is about to read a frame in state GettingPieces
GettingPieces == pc = "loop" /\ state = "GettingPieces"

\* A have message: the tag and a piece index of four bytes
HaveFrame == Frame(FALSE, 5, 4, 0, 0, 0)

\* What a message that is set aside leaves as it was
SetAside ==
    /\ state' = "GettingPieces"
    /\ block_states' = block_states
    /\ piece' = piece
    /\ sent' = sent
    /\ result' = "running"

\* C23: in GettingPieces a have message is read and leaves the connection
\* state, every block state and the piece buffer as they were, and no message
\* is sent.
C23_HaveIsIgnored ==
    GettingPieces =>
        /\ ENABLED get_pieces_frame(HaveFrame)
        /\ ~ENABLED (get_pieces_frame(HaveFrame) /\ ~SetAside)

\* Blocks have arrived and others are awaited
C23_Witness ==
    /\ GettingPieces
    /\ piece_index = 0
    /\ \E b \in DOMAIN block_states : block_states[b] = "Downloaded"
    /\ \E b \in DOMAIN block_states : block_states[b] = "Requested"

\* The piece frames of the model whose index is not the piece being downloaded
OtherPieceFrames ==
    { f \in Frames(torrent, piece_index) : f.tag = 7 /\ f.len >= 9 /\ f.index # piece_index }

\* C24: in GettingPieces a piece message whose index is not the piece being
\* downloaded is discarded: the block states and the piece buffer stay as
\* they were, no request is sent, and the state stays GettingPieces.
C24_OtherPieceIsDiscarded ==
    GettingPieces =>
        /\ OtherPieceFrames # {}
        /\ \A f \in OtherPieceFrames :
              /\ ENABLED get_pieces_frame(f)
              /\ ~ENABLED (get_pieces_frame(f) /\ ~SetAside)

\* The second piece of a download awaits its first block
C24_Witness ==
    /\ GettingPieces
    /\ piece_index = 1
    /\ \A b \in DOMAIN block_states : block_states[b] = "Requested"

----------------------------------------------------------------------------
(* The validation of a block: claim C25 *)

\* The piece frames of the model for the piece being downloaded
ThisPieceFrames ==
    { f \in Frames(torrent, piece_index) : f.tag = 7 /\ f.len >= 9 /\ f.index = piece_index }

\* begin lies in a block of the piece, and the block carried has the length
\* expected of block begin / 16384
WellFormedBlock(f) ==
    /\ f.begin \div BLOCK_LEN < BlockCount(torrent, piece_index)
    /\ f.len - 9 = BlockLen(torrent, piece_index, f.begin \div BLOCK_LEN)

\* The block carried by f is copied into the buffer and marked Downloaded
Applied(f) ==
    /\ block_states'[f.begin \div BLOCK_LEN] = "Downloaded"
    /\ piece' = CopyFromSlice(piece, f.begin, f.len - 9, f.fill)

\* The message is refused with an error and nothing is recorded
Refused ==
    /\ block_states' = block_states
    /\ piece' = piece
    /\ ReturnedError

\* C25: in GettingPieces a piece message for the current piece is applied
\* when begin addresses a block of the piece and the block has the length
\* expected of block begin / 16384; otherwise no block is marked Downloaded,
\* the buffer is unchanged, and download_piece returns an error (the program
\* does not abort).
C25_BlockIsValidated ==
    GettingPieces =>
        \A f \in ThisPieceFrames :
            /\ ENABLED get_pieces_frame(f)
            /\ ~ENABLED (get_pieces_frame(f)
                          /\ ~(IF WellFormedBlock(f) THEN Applied(f) ELSE Refused))

----------------------------------------------------------------------------
(* The bitfield comes first: claim C26 *)

\* The frames of the model that decode to a message
MessageFrames ==
    { f \in Frames(torrent, piece_index) : receive_message(f).kind = "msg" }

BitfieldFrames == { f \in MessageFrames : f.tag = 5 }

\* What receive_bitfield makes of message f, as the claim has it
BitfieldOutcome(f) ==
    IF f \in BitfieldFrames
    THEN /\ state' = "ReadyToExpressInterest"
         /\ result' = "running"
    ELSE /\ result' = "unexpected message"
         /\ pc' = "exit"
         /\ state' = "WaitingForBitfield"
         /\ sent' = sent

\* C26: in WaitingForBitfield a bitfield moves the connection to
\* ReadyToExpressInterest and every other message ends download_piece with
\* "unexpected message", the state still WaitingForBitfield and nothing
\* sent; in the later states that read a frame a bitfield changes neither the
\* connection state nor a block state.
C26_BitfieldComesFirst ==
    /\ pc = "receive_bitfield" =>
          /\ state = "WaitingForBitfield"
          /\ BitfieldFrames # {} /\ MessageFrames \ BitfieldFrames # {}
          /\ \A f \in MessageFrames :
                /\ ENABLED receive_bitfield_frame(f)
                /\ ~ENABLED (receive_bitfield_frame(f) /\ ~BitfieldOutcome(f))
    /\ (pc = "loop" /\ state \in {"WaitingForUnchoke", "GettingPieces"}) =>
          \A f \in BitfieldFrames :
              /\ ENABLED ReceiveFrame(f)
              /\ ~ENABLED (ReceiveFrame(f) /\ ~Ignored)

C26_Witness ==
    /\ result = "unexpected message"
    /\ pc = "exit"
    /\ state = "WaitingForBitfield"
    /\ sent = << HandshakeMsg >>

----------------------------------------------------------------------------
(* One connection, several pieces: claim C27 *)

InterestedSent == { k \in DOMAIN sent : sent[k].tag = "interested" }

\* download calls download_piece for a piece after the first
LaterCall ==
    /\ cmd = "download"
    /\ pc = "download"
    /\ 0 < dl_i /\ dl_i < piece_count(torrent)

\* download_piece returns Ok: the piece file is written
PieceSucceeds == pc = "verify" /\ files' # files

\* C27: in a download of several pieces interested is sent at most once and
\* before every request, and exactly once when a later piece is asked for;
\* every call of download_piece after the first starts in ReadyToRequest with
\* every block state None and a buffer of zeros; a call that succeeds ends in
\* ReadyToRequest.
C27_ReentryPerPiece ==
    /\ [](cmd = "download" =>
            /\ Cardinality(InterestedSent) <= 1
            /\ \A r \in RequestsSent : \E k \in InterestedSent : k < r
            /\ (\E r \in RequestsSent : sent[r].index > 0) =>
                  Cardinality(InterestedSent) = 1)
    /\ [][ LaterCall =>
              /\ state = "ReadyToRequest" /\ state' = "ReadyToRequest"
              /\ pc' = "loop"
              /\ piece_index' = dl_i
              /\ DOMAIN block_states' = 0..(BlockCount(torrent, dl_i) - 1)
              /\ \A b \in DOMAIN block_states' : block_states'[b] = "None"
              /\ DOMAIN piece' = Offsets(PieceLength(torrent, dl_i))
              /\ \A o \in DOMAIN piece' : piece'[o] = 0 ]_vars
    /\ [][ PieceSucceeds => state = "ReadyToRequest" /\ state' = "ReadyToRequest" ]_vars

\* The second piece is asked for
C27_Witness ==
    /\ cmd = "download"
    /\ piece_index = 1
    /\ state = "GettingPieces"
    /\ Cardinality(InterestedSent) = 1
    /\ \E r \in RequestsSent : sent[r].index = 1

----------------------------------------------------------------------------
(* The life of a block: claim C29 *)

\* A step of the loop of download_piece, within the download of one piece
WithinPiece ==
    /\ pc = "loop"
    /\ piece_index' = piece_index
    /\ DOMAIN block_states' = DOMAIN block_states

\* Block b stays as it is or takes the next step of None, Requested, Downloaded
Forward(b) ==
    \/ block_states'[b] = block_states[b]
    \/ block_states[b] = "None" /\ block_states'[b] = "Requested"
    \/ block_states[b] = "Requested" /\ block_states'[b] = "Downloaded"

\* C29: during the download of a piece every block's state moves only along
\* None -> Requested -> Downloaded: it is marked Downloaded only from
\* Requested, and never returns to an earlier state.
C29_BlockStatesMoveForward ==
    [][ WithinPiece => \A b \in DOMAIN block_states : Forward(b) ]_vars

----------------------------------------------------------------------------
(* The connection after a failed call: claim C30 *)

\* download_piece has returned an error
Failed == pc = "exit" /\ result \notin {"running", "ok", "panic"}

\* download_piece(i) called on the connection as a failed call left it: the
\* guard of lines 376-382 and the set-up of lines 384-400
CallAgain(i) ==
    /\ Failed
    /\ EnterDownloadPiece(i)
    /\ UNCHANGED <<pure_vars, torrent, cmd, state, peer_id, dl_i, sent, progress, files,
                   output>>

\* The call returns "invalid state" and no frame is written or read
RefusedInvalidState ==
    /\ pc' = "exit"
    /\ result' = "invalid state"
    /\ sent' = sent
    /\ progress' = progress
    /\ state' = state

\* The call passes the guard and starts on its piece
Accepted ==
    /\ pc' = "loop"
    /\ state' = "ReadyToRequest"
    /\ \A b \in DOMAIN block_states' : block_states'[b] = "None"

\* C30: a call of download_piece that fails in WaitingForUnchoke or
\* GettingPieces leaves the connection in that state, and every later call
\* on the connection returns "invalid state" without writing or reading a
\* frame; after "incorrect piece hash" the state is ReadyToRequest and a later
\* call is accepted.
C30_AfterAFailedCall ==
    /\ [][ (/\ pc = "loop" /\ state \in {"WaitingForUnchoke", "GettingPieces"}
            /\ Failed' /\ result' # "incorrect piece hash")
           => state' = state ]_vars
    /\ []((Failed /\ state \in {"WaitingForUnchoke", "GettingPieces"}) =>
            \A i \in 0..(piece_count(torrent) - 1) :
                /\ ENABLED CallAgain(i)
                /\ ~ENABLED (CallAgain(i) /\ ~RefusedInvalidState))
    /\ []((Failed /\ result = "incorrect piece hash") =>
            /\ state = "ReadyToRequest"
            /\ \A i \in 0..(piece_count(torrent) - 1) :
                  /\ ENABLED CallAgain(i)
                  /\ ~ENABLED (CallAgain(i) /\ ~Accepted))

\* A call has failed in GettingPieces with blocks outstanding
C30_Witness ==
    /\ Failed
    /\ state = "GettingPieces"
    /\ \E b \in DOMAIN block_states : block_states[b] = "Requested"

----------------------------------------------------------------------------
(***************************************************************************)
(* The session with a peer that keeps to the protocol: it answers the      *)
(* handshake, sends the bitfield, sends unchoke once interested has been   *)
(* sent, and answers every request once, in any order, with a block of the *)
(* requested length.  Every write to the stream succeeds.                  *)
(***************************************************************************)

UnchokeFrame == Frame(FALSE, 1, 1, 0, 0, 0)

\* The answers the peer still owes: a block of the requested length for
\* every block that is Requested
Answers ==
    { f \in ThisPieceFrames :
        /\ f.begin % BLOCK_LEN = 0
        /\ f.begin \div BLOCK_LEN \in DOMAIN block_states
        /\ block_states[f.begin \div BLOCK_LEN] = "Requested"
        /\ f.len - 9 = BlockLen(torrent, piece_index, f.begin \div BLOCK_LEN) }

\* The write of the step succeeded and the frame read was accepted
NoFailure == pc' # "exit"

peer_handshake == receive_handshake /\ NoFailure

peer_bitfield ==
    /\ pc = "receive_bitfield"
    /\ \E f \in BitfieldFrames : receive_bitfield_frame(f)

peer_unchoke == wait_for_unchoke_frame(UnchokeFrame)

peer_answer ==
    /\ GettingPieces
    /\ \E f \in Answers : get_pieces_frame(f) /\ NoFailure

NextConforming ==
    \/ send_handshake /\ NoFailure
    \/ peer_handshake
    \/ main_handshake
    \/ main_download_piece
    \/ main_download
    \/ download
    \/ peer_bitfield
    \/ express_interest /\ NoFailure
    \/ peer_unchoke
    \/ send_requests /\ NoFailure
    \/ peer_answer
    \/ verify

\* The program takes its next step, and the peer sends what it owes
SpecConforming == Init /\ [][NextConforming]_vars /\ WF_vars(NextConforming)

----------------------------------------------------------------------------
(* The download of a piece ends: claim C28 *)

\* The requests sent for piece i, in the order sent
RequestsFor(i) == SelectSeq(sent, LAMBDA m : m.tag = "request" /\ m.index = i)

\* The blocks of the current piece for which a payload was copied
BlocksReceived == { b \in DOMAIN received : received[b] # -1 }

\* The loop of download_piece has been left through its break
LoopLeft == pc = "verify"

\* C28: with a peer that sends the bitfield, sends unchoke after interested
\* and answers every request once with a block of the requested length, in
\* any order, download_piece eventually leaves its loop; each answer read
\* marks one block, and when the loop is left exactly block_count =
\* ceil(piece_len / 16384) requests were sent for the piece and block_count
\* blocks were received; for a piece of 32768 bytes these are two requests of
\* 16384 bytes, for blocks 0 and 1.
C28_DownloadPieceTerminates ==
    /\ (pc = "loop") ~> LoopLeft
    /\ [][ GettingPieces =>
              \E b \in DOMAIN block_states :
                  /\ block_states[b] = "Requested" /\ block_states'[b] = "Downloaded"
                  /\ received[b] = -1 /\ received'[b] # -1
                  /\ \A c \in DOMAIN received \ {b} : received'[c] = received[c] ]_vars
    /\ [](LoopLeft =>
            /\ Len(RequestsFor(piece_index)) = div_round_up(PieceLength(torrent, piece_index), BLOCK_LEN)
            /\ Cardinality(BlocksReceived) = div_round_up(PieceLength(torrent, piece_index), BLOCK_LEN)
            /\ PieceLength(torrent, piece_index) = 2 * BLOCK_LEN =>
                  RequestsFor(piece_index) =
                      << Msg("request", piece_index, 0, BLOCK_LEN),
                         Msg("request", piece_index, BLOCK_LEN, BLOCK_LEN) >>)

\* The loop is left for the piece of MaxBlocks blocks
C28_Witness ==
    /\ LoopLeft
    /\ Len(RequestsFor(piece_index)) = MaxBlocks
    /\ Cardinality(BlocksReceived) = MaxBlocks

----------------------------------------------------------------------------
(***************************************************************************)
(* The info_hash of the tracker URL (tracker.rs, get_peers, lines 46-62).  *)
(* A text is the sequence of its characters.                               *)
(***************************************************************************)

\* The length of a SHA-1 digest, and the bound of the loop of get_peers
DigestLen == 20

\* The characters hex::encode writes for the values 0..15
HexDigits ==
    << "0", "1", "2", "3", "4", "5", "6", "7", "8", "9", "a", "b", "c", "d", "e", "f" >>

\* hex::encode: two digits for every byte, the high half first
HexEncode(bytes) ==
    [k \in 1..(2 * Len(bytes)) |->
        IF k % 2 = 1 THEN HexDigits[(bytes[(k + 1) \div 2] \div 16) + 1]
                     ELSE HexDigits[(bytes[k \div 2] % 16) + 1]]

\* The byte values of the digests of the model
DigestBytes == {0, 10, 165, 255}

\* The digests of the model: one byte value throughout, but for one position
Digests ==
    { [j \in 1..DigestLen |-> IF j = k THEN b ELSE c] :
        k \in 1..DigestLen, b \in DigestBytes, c \in DigestBytes }

\* info_hash.chars().nth(k): the character at index k (from 0), when there is one
Nth(text, k) == IF k < Len(text) THEN <<text[k + 1]>> ELSE << >>

\* A group with its two digits exchanged
PercentGroup_LowFirst(text, i) == << "%" >> \o Nth(text, 2 * i + 1) \o Nth(text, 2 * i)

\* Lines 51-53: the three characters pushed in iteration i
PercentGroup(text, i) == << "%" >> \o Nth(text, 2 * i) \o Nth(text, 2 * i + 1)

InitAnnounce ==
  /\ PeerAbsent
  /\ BencodeAbsent
  /\ LayoutAbsent
  /\ TrackerAbsent
  /\ MetainfoAbsent
  /\ url_digest \in Digests
  /\ url_info_hash = << >>
  /\ url_i = 0
  /\ url_encoded = << >>
  /\ url_phase = "start"

\* Lines 48-49: torrent.info_hash() (torrent.rs, line 100: hex::encode of
\* the digest) and the empty String
info_hash ==
  /\ url_phase = "start"
  /\ url_info_hash' = HexEncode(url_digest)
  /\ url_encoded' = << >>
  /\ url_i' = 0
  /\ url_phase' = "loop"
  /\ UNCHANGED << url_digest, peer_vars, bencode_vars, layout_vars, tracker_vars,
                  metainfo_vars >>

\* Lines 50-54: one iteration of the loop; unwrap panics when nth is None
push_group ==
  /\ url_phase = "loop"
  /\ url_i < DigestLen
  /\ IF 2 * url_i + 1 < Len(url_info_hash)
     THEN /\ url_encoded' = url_encoded \o PercentGroup(url_info_hash, url_i)
          /\ url_i' = url_i + 1
          /\ UNCHANGED url_phase
     ELSE /\ url_phase' = "panic"
          /\ UNCHANGED << url_encoded, url_i >>
  /\ UNCHANGED << url_digest, url_info_hash, peer_vars, bencode_vars, layout_vars,
                  tracker_vars, metainfo_vars >>

\* Lines 57-62: the loop is over and the URL is formatted
format_url ==
  /\ url_phase = "loop"
  /\ url_i = DigestLen
  /\ url_phase' = "formatted"
  /\ UNCHANGED << url_digest, url_info_hash, url_i, url_encoded, peer_vars, bencode_vars,
                  layout_vars, tracker_vars, metainfo_vars >>

NextAnnounce ==
  \/ info_hash
  \/ push_group
  \/ format_url

SpecAnnounce == InitAnnounce /\ [][NextAnnounce]_vars

----------------------------------------------------------------------------
(* The info_hash query value: claim C21 *)

\* The two hex digits of a byte, the high half first
HexOfByte(b) == << HexDigits[(b \div 16) + 1], HexDigits[(b % 16) + 1] >>

\* C21: the info_hash value of the tracker URL is exactly 20 groups of three
\* characters, group i being "%" and the two hex digits of byte i of the raw
\* digest; it is not the 40 characters of the hex form (whose characters
\* percent-encoding leaves as they are).
C21_InfoHashIsPercentEncodedDigest ==
    url_phase = "formatted" =>
        /\ Len(url_encoded) = 3 * DigestLen
        /\ \A i \in 0..(DigestLen - 1) :
              SubSeq(url_encoded, 3 * i + 1, 3 * i + 3)
                  = << "%" >> \o HexOfByte(url_digest[i + 1])
        /\ url_encoded # url_info_hash
        /\ Len(url_info_hash) = 2 * DigestLen

C21_Witness ==
    /\ url_phase = "formatted"
    /\ SubSeq(url_encoded, 1, 6) = << "%", "a", "5", "%", "0", "0" >>
    /\ url_digest[DigestLen] = 0

----------------------------------------------------------------------------
(***************************************************************************)
(* The torrent file (torrent.rs, Torrent::from_bytes, lines 22-71).        *)
(***************************************************************************)

\* The keys from_bytes looks up, as their bytes
Key_announce == << 97, 110, 110, 111, 117, 110, 99, 101 >>
Key_info == << 105, 110, 102, 111 >>
Key_length == << 108, 101, 110, 103, 116, 104 >>
Key_name == << 110, 97, 109, 101 >>
Key_piece_length == << 112, 105, 101, 99, 101, 32, 108, 101, 110, 103, 116, 104 >>
Key_pieces == << 112, 105, 101, 99, 101, 115 >>

\* "http://t/a", which Url::parse accepts, and "t/a", which it refuses for
\* want of a scheme
Url_absolute == << 104, 116, 116, 112, 58, 47, 47, 116, 47, 97 >>
Url_relative == << 116, 47, 97 >>

\* The name "f"
Name_f == << 102 >>

\* The most SHA-1 digests in a pieces field
MaxHashes == 2

\* A byte string and an integer as they stand in a torrent file
StrBytes(bytes) == Decimal(Len(bytes)) \o << Ch_colon >> \o bytes
IntBytes(n) ==
  << Ch_i >> \o (IF n < 0 THEN << Ch_minus >> \o Decimal(-n) ELSE Decimal(n)) \o << Ch_e >>

\* A dictionary entry, left out when its key is the one omitted
Entry(key, value, omit) == IF key = omit THEN << >> ELSE StrBytes(key) \o value

\* The torrent file with the given fields, one key possibly omitted
TorrentFile(f) ==
  << Ch_d >>
    \o Entry(Key_announce, StrBytes(f.announce), f.omit)
    \o Entry(Key_info,
             << Ch_d >>
               \o Entry(Key_length, IntBytes(f.length), f.omit)
               \o Entry(Key_name, StrBytes(Name_f), f.omit)
               \o Entry(Key_piece_length, IntBytes(f.piece_length), f.omit)
               \o Entry(Key_pieces, StrBytes([j \in 1..f.pieces_len |-> 1]), f.omit)
               \o << Ch_e >>,
             f.omit)
    \o << Ch_e >>

\* The torrent files of the model
TorrentFields ==
  [ announce : {Url_absolute, Url_relative},
    length : {0, 1, 20, 21, 40},
    piece_length : {-1, 0, 1, 20},
    pieces_len : { 20 * k : k \in 0..MaxHashes } \cup {19},
    omit : {<< >>, Key_announce, Key_info, Key_length, Key_name, Key_piece_length,
            Key_pieces} ]

\* BTreeMap::get: the value of the entry of that key, if there is one
Get(entries, key) ==
  IF \E j \in 1..Len(entries) : entries[j][1] = key
  THEN entries[CHOOSE j \in 1..Len(entries) : entries[j][1] = key][2]
  ELSE [type |-> "none"]

\* reqwest::Url::parse succeeds: the text starts with a scheme and "://"
\* and names a host
UrlParses(bytes) ==
  Len(bytes) > 7 /\ SubSeq(bytes, 1, 7) = SubSeq(Url_absolute, 1, 7)

\* as_integer, then usize::try_from: Some for an Integer that is not negative
IsUsize(v) == v.type = "Integer" /\ ~v.neg

\* Line 58: `pieces.len() % 20 != 0`, negated
PiecesLenOk(pieces) == Len(pieces) % 20 = 0

\* Torrent::from_bytes
TorrentFromBytes(input) ==
  LET d == Decode(input)
      dict == d.value.entries
      announce == Get(dict, Key_announce)
      info == Get(dict, Key_info)
      length == Get(info.entries, Key_length)
      name == Get(info.entries, Key_name)
      piece_length == Get(info.entries, Key_piece_length)
      pieces == Get(info.entries, Key_pieces)
  IN IF d.kind # "ok" THEN [kind |-> d.kind, msg |-> d.msg]
     ELSE IF d.value.type # "Dictionary" THEN Err("invalid torrent file")
     ELSE IF announce.type # "ByteString" \/ ~UrlParses(announce.bytes)
     THEN Err("missing or invalid announce field")
     ELSE IF info.type # "Dictionary" THEN Err("missing or invalid info field")
     ELSE IF ~IsUsize(length) THEN Err("missing or invalid length field")
     ELSE IF name.type # "ByteString" THEN Err("missing or invalid name field")
     ELSE IF ~IsUsize(piece_length) THEN Err("missing or invalid piece length field")
     ELSE IF pieces.type # "ByteString" THEN Err("missing or invalid pieces field")
     ELSE IF ~PiecesLenOk(pieces.bytes) THEN Err("invalid pieces field")
     ELSE [kind |-> "ok",
           torrent |-> [announce |-> announce.bytes,
                        length |-> SmallValue(length.digits),
                        name |-> name.bytes,
                        piece_length |-> SmallValue(piece_length.digits),
                        pieces |-> pieces.bytes]]

InitMetainfo ==
  /\ PeerAbsent
  /\ BencodeAbsent
  /\ LayoutAbsent
  /\ TrackerAbsent
  /\ AnnounceAbsent
  /\ mi_input \in { TorrentFile(f) : f \in TorrentFields }
  /\ mi_result = NotParsed

\* main, lines 58-59 (and 71-72, 79-80, 90-91, 101-102): the file is parsed
from_bytes ==
  /\ mi_result = NotParsed
  /\ mi_result' = TorrentFromBytes(mi_input)
  /\ UNCHANGED << mi_input, peer_vars, bencode_vars, layout_vars, tracker_vars,
                  announce_vars >>

NextMetainfo == from_bytes

SpecMetainfo == InitMetainfo /\ [][NextMetainfo]_vars

----------------------------------------------------------------------------
(* The invariants of a torrent: claim C22 *)

\* C22: every torrent that from_bytes accepts has piece_length >= 1 and a
\* pieces field of 20 * ceil(length / piece_length) bytes.
C22_AcceptedTorrentIsConsistent ==
    mi_result.kind = "ok" =>
        /\ mi_result.torrent.piece_length >= 1
        /\ Len(mi_result.torrent.pieces) = 20 * piece_count(mi_result.torrent)

====
